---- MODULE Spec2Model ----
(***************************************************************************)
(* A model of src/utils/scratch.py: cleanhtml, search_title and get_links  *)
(* run against a MediaWiki API whose answers are the environment's choice. *)
(* A string is a sequence of one-character strings; a JSON object is a     *)
(* function whose DOMAIN is the set of keys it carries, so that a missing  *)
(* key (Python's KeyError) is a key outside the DOMAIN.                    *)
(***************************************************************************)
EXTENDS Integers, Sequences, FiniteSets, TLC

\* ------------------------------------------------------------- bounds
\* The largest number of pages the API lists for one query.
MaxHits == 6
\* The interpreter's recursion limit, scaled down: the number of nested
\* search_title frames beyond which a call raises RecursionError.
RecursionLimit == 4
\* The largest number of links on one page.
MaxLinks == 4
\* The largest number of responses the links of one page are spread over.
MaxFetches == 3

\* ---------------------------------------------------------- constants
\* def search_title(title_guess, srlimit: int = 5)
DefaultSrLimit == 5
\* pllimit = 500, "max allowed by mediawiki api"
ApiMaxLimit == 500

\* ------------------------------------------------------------ strings
Min(a, b) == IF a < b THEN a ELSE b

\* str.replace(" ", "_")
Normalize(s) == [i \in DOMAIN s |-> IF s[i] = " " THEN "_" ELSE s[i]]

\* The least j > i with s[j] = ">" and no line break in s[i+1..j-1], or 0:
\* where the non-greedy pattern <.*?> that starts at i ends ("." matches
\* no line break).
TagEnd(s, i) ==
    LET ends == {j \in (i + 1)..Len(s) :
                    /\ s[j] = ">"
                    /\ \A k \in (i + 1)..(j - 1) : s[k] # "\n"}
    IN IF ends = {} THEN 0 ELSE CHOOSE j \in ends : \A k \in ends : j <= k

RECURSIVE SubFrom(_, _)
\* re.sub(cleanr, "", s) from position i on: leftmost matches, left to right.
SubFrom(s, i) ==
    IF i > Len(s) THEN <<>>
    ELSE IF s[i] = "<" /\ TagEnd(s, i) # 0 THEN SubFrom(s, TagEnd(s, i) + 1)
    ELSE <<s[i]>> \o SubFrom(s, i + 1)

cleanhtml(raw_html) == SubFrom(raw_html, 1)

\* ----------------------------------------------------- the search API
\* Title guesses a caller passes, and that the API suggests.
Titles == {<<"a", " ", "b">>, <<"b">>, <<"c">>}

\* What the API is asked for: params["srsearch"].
Keys == {Normalize(t) : t \in Titles}

\* Snippets as the API sends them, with its highlighting markup.
RawSnippet(k) ==
    LET table == << <<"<", "b", ">", "x", "<", "/", "b", ">">>,
                    <<"a", " ", "<", " ", "b">>,
                    <<"<", "i", "\n", ">", "y">>,
                    <<"p", "<", "<", "q", ">", ">">> >>
    IN table[((k - 1) % 4) + 1]

\* The k-th page the API ranks for a query: one element of query.search.
Page(key, k) == [pageid |-> k, title |-> key, snippet |-> RawSnippet(k)]

\* What the API holds for one query: an HTTP-layer fault, a body without
\* query.searchinfo.totalhits, no hits (with or without a suggestion), hits
\* without query.search, or hits of which it lists `listed` (listed = 0: every
\* hit is a page the API leaves out of the list).
ApiEntries ==
    {[fault |-> TRUE], [error |-> TRUE], [totalhits |-> 0], [totalhits |-> 1],
     [totalhits |-> 1, listed |-> 0]}
    \cup {[totalhits |-> 0, suggestion |-> t] : t \in Titles}
    \cup {[totalhits |-> n, listed |-> n] : n \in 1..MaxHits}

Apis == [Keys -> ApiEntries]

\* A wiki with no page and no suggestion.
EmptyWiki == [k \in Keys |-> [totalhits |-> 0]]

\* resp.json() for params srsearch = key, srlimit = srlimit: the API lists
\* at most srlimit pages, in its ranking order.
Response(entry, key, srlimit) ==
    IF "listed" \in DOMAIN entry
    THEN [totalhits |-> entry.totalhits,
          search |-> [i \in 1..Min(entry.listed, srlimit) |-> Page(key, i)]]
    ELSE entry

\* The limits a caller passes.
SrLimits == {1, 3, DefaultSrLimit}

\* ------------------------------------------------------ the links API
\* The namespaces of the links the API returns: 0 (articles) and 1 (talk).
Namespaces == {0, 1}

\* k links, titled in the API's order from `first` on.
LinkLists(first, k) ==
    {[j \in 1..k |-> [ns |-> ns[j], title |-> first + j - 1]] :
        ns \in [1..k -> Namespaces]}

\* One response: query.pages' single page with its links key or without it,
\* and continue.plcontinue = cursor unless cursor is <<>>.
Body(has_links, links, cursor) ==
    IF cursor = <<>>
    THEN (IF has_links THEN [pageid |-> 1, links |-> links] ELSE [pageid |-> 1])
    ELSE (IF has_links THEN [pageid |-> 1, links |-> links, continue |-> cursor[1]]
          ELSE [pageid |-> 1, continue |-> cursor[1]])

RECURSIVE PagesFrom(_, _, _)
\* The paginations from the i-th response on, of a page with `left` links
\* still to serve, the next one titled `first`. A response is an HTTP-layer
\* fault (nothing is fetched after it) or a body with some of the links or
\* with no links key; every response but the last carries the cursor i, which
\* asks for response i + 1.
PagesFrom(i, first, left) ==
    LET shapes == {<<0, FALSE, <<>> >>}
                  \cup UNION {{<<k, TRUE, l>> : l \in LinkLists(first, k)} :
                                 k \in 0..left}
    IN {<<[fault |-> TRUE]>>}
       \cup {<<Body(b[2], b[3], <<>>)>> : b \in shapes}
       \cup (IF i = MaxFetches THEN {}
             ELSE UNION {{<<Body(b[2], b[3], <<i>>)>> \o rest :
                             rest \in PagesFrom(i + 1, first + b[1], left - b[1])} :
                           b \in shapes})

LinkPages == PagesFrom(1, 1, MaxLinks)

\* The counts a caller passes: <<>> is None, <<n>> is the integer n.
NumLinksInputs == {<<>>, <<0>>, <<1>>, <<2>>, <<3>>, <<ApiMaxLimit + 1>>}

\* -------------------------------------------------------------- state
VARIABLES
    pc,          \* where the running call is: "idle", a step, or "done"
    fn,          \* the function of the top-level call
    api,         \* the search API's content during the calls of one run
    stack,       \* the search_title frames, the running one last
    retval,      \* the value a search_title frame is returning
    exc,         \* the exception propagating out of a frame
    sessions,    \* the number of requests.Session objects open
    requests,    \* the params of the GET requests of the top-level call
    responses,   \* the JSON bodies received during the top-level call
    outcome,     \* how the top-level call ended
    results,     \* per title, the outcome of search_title(title) in this run
    num_links,   \* get_links: its argument
    pllimit,     \* get_links: the page size it asks for
    pl,          \* get_links: the accumulator
    plcontinue,  \* get_links: the cursor, <<>> for None
    page         \* the links API's pagination for the page asked for

vars == <<pc, fn, api, stack, retval, exc, sessions, requests, responses,
          outcome, results, num_links, pllimit, pl, plcontinue, page>>

searchVars == <<api, stack, retval, exc, results>>
linkVars == <<num_links, pllimit, pl, plcontinue, page>>

NotRun == [kind |-> "not run"]
Returned(v) == [kind |-> "list", value |-> v]
ReturnedNone == [kind |-> "None"]
Raised(e) == [kind |-> "raise", exc |-> e]

Init ==
    /\ pc = "idle"
    /\ fn = "none"
    /\ api = EmptyWiki
    /\ stack = <<>>
    /\ retval = NotRun
    /\ exc = "none"
    /\ sessions = 0
    /\ requests = <<>>
    /\ responses = <<>>
    /\ outcome = NotRun
    /\ results = [t \in Titles |-> NotRun]
    /\ num_links = <<>>
    /\ pllimit = 0
    /\ pl = <<>>
    /\ plcontinue = <<>>
    /\ page = <<>>

\* ------------------------------------------------------- search_title
Top == stack[Len(stack)]
Pop == SubSeq(stack, 1, Len(stack) - 1)

\* `with requests.Session() as sess`: entering opens the session, leaving
\* the block closes it, by a return or by an exception.
EnterSession(n) == n + 1
ExitSessionOnReturn(n) == n - 1
\* A faulty variant: the session is closed only by the return at the end.
LeakSessionOnRaise(n) == n
ExitSessionOnRaise(n) == n - 1

\* `except KeyError` around the suggestion lookup and the recursive call.
Caught(e) == e = "KeyError"

\* search_title(new_guess): the requery passes no srlimit.
RequeryFrame(new_guess, srlimit) ==
    [title_guess |-> new_guess, srlimit |-> DefaultSrLimit]

\* for page in json_data["query"]["search"]: clean the snippet, append.
Suggestions(search) ==
    [i \in DOMAIN search |-> [search[i] EXCEPT !.snippet = cleanhtml(@)]]

\* A top-level call search_title(g, n). The first call of a run meets the
\* API as it then is; later calls of the run meet the same API.
search_title_call(g, n) ==
    /\ \/ pc = "idle" /\ api' \in Apis
       \/ pc = "done" /\ fn = "search_title" /\ api' = api
    /\ pc' = "st_request"
    /\ fn' = "search_title"
    /\ stack' = <<[title_guess |-> g, srlimit |-> n]>>
    /\ retval' = NotRun
    /\ exc' = "none"
    /\ requests' = <<>>
    /\ responses' = <<>>
    /\ outcome' = NotRun
    /\ UNCHANGED <<sessions, results>>
    /\ UNCHANGED linkVars

\* Lines 56-65: open the session, build params, GET, decode the body.
st_request ==
    /\ pc = "st_request"
    /\ LET key == Normalize(Top.title_guess)
           \* "srlimit": str(srlimit), which the API reads back as the number
           params == [srlimit |-> Top.srlimit, srsearch |-> key]
           entry == api[key]
       IN /\ sessions' = EnterSession(sessions)
          /\ requests' = Append(requests, params)
          /\ IF "fault" \in DOMAIN entry
             THEN /\ exc' = "HTTPError"
                  /\ pc' = "st_raise"
                  /\ UNCHANGED responses
             ELSE /\ responses' = Append(responses, Response(entry, key, Top.srlimit))
                  /\ pc' = "st_dispatch"
                  /\ UNCHANGED exc
    /\ UNCHANGED <<fn, api, stack, retval, outcome, results>>
    /\ UNCHANGED linkVars

\* Lines 66-75 on the body just received.
st_dispatch ==
    /\ pc = "st_dispatch"
    /\ LET json_data == responses[Len(responses)]
       IN IF "totalhits" \notin DOMAIN json_data
          THEN /\ exc' = "KeyError" /\ pc' = "st_raise"
               /\ UNCHANGED <<stack, retval>>
          ELSE IF json_data.totalhits = 0
          THEN IF "suggestion" \notin DOMAIN json_data
               THEN /\ retval' = ReturnedNone /\ pc' = "st_return"
                    /\ UNCHANGED <<stack, exc>>
               ELSE IF Len(stack) >= RecursionLimit
               THEN /\ exc' = "RecursionError" /\ pc' = "st_raise"
                    /\ UNCHANGED <<stack, retval>>
               ELSE /\ stack' = Append(stack,
                                  RequeryFrame(json_data.suggestion, Top.srlimit))
                    /\ pc' = "st_request"
                    /\ UNCHANGED <<retval, exc>>
          ELSE IF "search" \notin DOMAIN json_data
          THEN /\ exc' = "KeyError" /\ pc' = "st_raise"
               /\ UNCHANGED <<stack, retval>>
          ELSE /\ retval' = Returned(Suggestions(json_data.search))
               /\ pc' = "st_return"
               /\ UNCHANGED <<stack, exc>>
    /\ UNCHANGED <<fn, api, sessions, requests, responses, outcome, results>>
    /\ UNCHANGED linkVars

\* The outcome of the top-level call, kept per title for the default limit.
Record(o) ==
    IF stack[1].srlimit = DefaultSrLimit
    THEN [results EXCEPT ![stack[1].title_guess] = o]
    ELSE results

\* Line 76: the frame leaves the with block and returns; its caller, which
\* waits at line 69, takes the value as its own suggestions and returns it.
st_return ==
    /\ pc = "st_return"
    /\ sessions' = ExitSessionOnReturn(sessions)
    /\ stack' = Pop
    /\ IF Len(stack) = 1
       THEN /\ pc' = "done" /\ outcome' = retval /\ results' = Record(retval)
       ELSE /\ pc' = "st_return" /\ UNCHANGED <<outcome, results>>
    /\ UNCHANGED <<fn, api, retval, exc, requests, responses>>
    /\ UNCHANGED linkVars

\* An exception leaves the frame through the with block; the caller, inside
\* its try at line 69, catches a KeyError and returns None, and lets any
\* other exception through.
st_raise ==
    /\ pc = "st_raise"
    /\ sessions' = ExitSessionOnRaise(sessions)
    /\ stack' = Pop
    /\ IF Len(stack) = 1
       THEN /\ pc' = "done" /\ outcome' = Raised(exc) /\ results' = Record(Raised(exc))
            /\ UNCHANGED <<retval, exc>>
       ELSE IF Caught(exc)
       THEN /\ pc' = "st_return" /\ retval' = ReturnedNone /\ exc' = "none"
            /\ UNCHANGED <<outcome, results>>
       ELSE /\ pc' = "st_raise" /\ UNCHANGED <<retval, exc, outcome, results>>
    /\ UNCHANGED <<fn, api, requests, responses>>
    /\ UNCHANGED linkVars

\* ---------------------------------------------------------- get_links
\* Lines 98-100: the page size asked for.
PageSize(n) ==
    IF n = <<>> \/ n[1] > ApiMaxLimit THEN ApiMaxLimit ELSE n[1]

\* Lines 104-112: params, with plcontinue when this is not the first loop.
Params(limit, cursor) ==
    IF cursor = <<>> THEN [prop |-> "links", pllimit |-> limit]
    ELSE [prop |-> "links", pllimit |-> limit, plcontinue |-> cursor[1]]

\* The links API: the first response without a cursor, and after the i-th
\* response's cursor the next response.
Serve(pg, params) ==
    pg[IF "plcontinue" \in DOMAIN params THEN params.plcontinue + 1 ELSE 1]

\* A faulty variant: no namespace test.
KeepsAnyNamespace(link) == TRUE

\* if link["ns"] == 0
Keeps(link) == link.ns = 0

\* if len(pl) == num_links (never true of None)
ReachedCount(acc, n) == n # <<>> /\ Len(acc) = n[1]

RECURSIVE Scan(_, _, _, _)
\* Lines 123-127 from the i-th link on: the accumulator, and whether the
\* loop returned it.
Scan(acc, links, i, n) ==
    IF i > Len(links) THEN [pl |-> acc, returned |-> FALSE]
    ELSE IF Keeps(links[i])
    THEN LET next == Append(acc, links[i].title)
         IN IF ReachedCount(next, n) THEN [pl |-> next, returned |-> TRUE]
            ELSE Scan(next, links, i + 1, n)
    ELSE Scan(acc, links, i + 1, n)

\* A faulty variant: no try around page[1]["links"].
MissingLinksRaises(acc) == Raised("KeyError")

\* Lines 118-122: no links key: log the error and return the accumulator.
MissingLinks(acc) == Returned(acc)

\* A faulty variant: the cursor read from the response is dropped.
StaleCursor(json_data, cursor) == cursor

\* Line 129: the cursor of this response, for the next request.
NextCursor(json_data, cursor) == <<json_data.continue>>

\* Lines 128-133: whether the loop goes round again.
HasCursor(json_data) == "continue" \in DOMAIN json_data

\* A top-level call get_links(page_name, n), lines 96-102.
get_links_call(n, pg) ==
    /\ pc = "idle"
    /\ pc' = "gl_loop"
    /\ fn' = "get_links"
    /\ num_links' = n
    /\ pllimit' = PageSize(n)
    /\ pl' = <<>>
    /\ plcontinue' = <<>>
    /\ page' = pg
    /\ sessions' = EnterSession(sessions)
    /\ UNCHANGED <<requests, responses, outcome>>
    /\ UNCHANGED searchVars

\* One round of the while loop, lines 104-133.
gl_fetch ==
    /\ pc = "gl_loop"
    /\ LET params == Params(pllimit, plcontinue)
           json_data == Serve(page, params)
       IN /\ requests' = Append(requests, params)
          /\ IF "fault" \in DOMAIN json_data
             THEN /\ sessions' = ExitSessionOnRaise(sessions)
                  /\ pc' = "done"
                  /\ outcome' = Raised("HTTPError")
                  /\ UNCHANGED <<responses, pl, plcontinue>>
             ELSE /\ responses' = Append(responses, json_data)
                  /\ IF "links" \notin DOMAIN json_data
                     THEN /\ sessions' = ExitSessionOnReturn(sessions)
                          /\ pc' = "done"
                          /\ outcome' = MissingLinks(pl)
                          /\ UNCHANGED <<pl, plcontinue>>
                     ELSE LET scan == Scan(pl, json_data.links, 1, num_links)
                          IN /\ pl' = scan.pl
                             /\ IF scan.returned \/ ~HasCursor(json_data)
                                THEN /\ sessions' = ExitSessionOnReturn(sessions)
                                     /\ pc' = "done"
                                     /\ outcome' = Returned(scan.pl)
                                     /\ UNCHANGED plcontinue
                                ELSE /\ plcontinue' = NextCursor(json_data, plcontinue)
                                     /\ pc' = "gl_loop"
                                     /\ UNCHANGED <<sessions, outcome>>
    /\ UNCHANGED <<fn, num_links, pllimit, page>>
    /\ UNCHANGED searchVars

\* The caller has its result; the next run starts from scratch.
Reset ==
    /\ pc = "done"
    /\ pc' = "idle"
    /\ fn' = "none"
    /\ api' = EmptyWiki
    /\ stack' = <<>>
    /\ retval' = NotRun
    /\ exc' = "none"
    /\ sessions' = sessions
    /\ requests' = <<>>
    /\ responses' = <<>>
    /\ outcome' = NotRun
    /\ results' = [t \in Titles |-> NotRun]
    /\ num_links' = <<>>
    /\ pllimit' = 0
    /\ pl' = <<>>
    /\ plcontinue' = <<>>
    /\ page' = <<>>

\* ----------------------------------------------------- specifications
SearchCalls ==
    /\ pc \in {"idle", "done"}
    /\ \E g \in Titles, n \in SrLimits : search_title_call(g, n)

LinksCalls ==
    /\ pc = "idle"
    /\ \E n \in NumLinksInputs, pg \in LinkPages : get_links_call(n, pg)

Next ==
    \/ SearchCalls
    \/ st_request
    \/ st_dispatch
    \/ st_return
    \/ st_raise
    \/ LinksCalls
    \/ gl_fetch
    \/ Reset

Spec == Init /\ [][Next]_vars

LinksNext ==
    \/ LinksCalls
    \/ gl_fetch
    \/ Reset

LinksSpec == Init /\ [][LinksNext]_vars

\* The loop of get_links is sequential code: a round that can run does run.
LinksFairSpec == LinksSpec /\ WF_vars(gl_fetch)

\* ------------------------------------------------------------- claims
SearchDone == pc = "done" /\ fn = "search_title"
LinksDone == pc = "done" /\ fn = "get_links"

\* C1: whatever count is asked for, 0 and counts above 500 included, the
\* list get_links returns has at most that many entries.
C1_AtMostNumLinks ==
    (LinksDone /\ outcome.kind = "list" /\ num_links # <<>>)
        => Len(outcome.value) <= num_links[1]

\* C2: search_title(title_guess, srlimit = n) never returns more than n
\* results, the suggestion requery included (the first request carries the
\* caller's n).
C2_AtMostSrlimit ==
    (SearchDone /\ outcome.kind = "list")
        => Len(outcome.value) <= requests[1].srlimit

\* A search body with every field the code reads on its branch.
WellFormed(json_data) ==
    /\ "totalhits" \in DOMAIN json_data
    /\ json_data.totalhits # 0 => "search" \in DOMAIN json_data

\* C3: search_title returns None only for a zero-hit response without a
\* suggestion; a response with a missing field, the requery's included, is
\* an error for the caller and is never turned into None.
C3_NoneOnlyWithoutSuggestion ==
    (SearchDone /\ outcome = ReturnedNone)
        => /\ \A i \in DOMAIN responses : WellFormed(responses[i])
           /\ responses[Len(responses)] = [totalhits |-> 0]

\* C4: one top-level search_title issues at most two HTTP requests: the
\* query and one requery.
C4_AtMostTwoRequests ==
    fn = "search_title" => Len(requests) <= 2

\* C5: when the API has no hits for g and suggests s, search_title(g) ends
\* as the direct call search_title(s) against the same API ends.
C5_SameAsDirect ==
    \A g \in Titles, s \in Titles :
        ( /\ results[g] # NotRun
          /\ results[s] # NotRun
          /\ api[Normalize(g)] = [totalhits |-> 0, suggestion |-> s] )
            => results[g] = results[s]

\* C6: search_title never returns an empty sequence: it returns a non-empty
\* sequence or None, and None for a zero-hit response without a suggestion.
C6_NeverEmpty ==
    /\ (SearchDone /\ outcome.kind = "list") => outcome.value # <<>>
    /\ (SearchDone /\ responses = <<[totalhits |-> 0]>>) => outcome = ReturnedNone

\* The namespace-0 titles of a list of links, in order.
RECURSIVE Ns0Titles(_)
Ns0Titles(links) ==
    IF links = <<>> THEN <<>>
    ELSE (IF Head(links).ns = 0 THEN <<Head(links).title>> ELSE <<>>)
         \o Ns0Titles(Tail(links))

RECURSIVE Ns0Upto(_, _)
\* The namespace-0 titles of the first k bodies, each of which has links.
Ns0Upto(bodies, k) ==
    IF k = 0 THEN <<>>
    ELSE Ns0Upto(bodies, k - 1) \o Ns0Titles(bodies[k].links)

RECURSIVE Served(_, _)
\* The number of responses, from the i-th on, that the API serves with a
\* links field before the pagination ends or a response lacks the field.
Served(pg, i) ==
    IF i > Len(pg) \/ "links" \notin DOMAIN pg[i] THEN 0
    ELSE 1 + Served(pg, i + 1)

\* The namespace-0 titles the page's pagination holds, in API order.
Available(pg) == Ns0Upto(pg, Served(pg, 1))

\* Every link of every response with links.
AllLinks(bodies) ==
    UNION {{bodies[i].links[j] : j \in DOMAIN bodies[i].links} :
              i \in {k \in DOMAIN bodies : "links" \in DOMAIN bodies[k]}}

\* C7: for n >= 1 and a page whose responses hold at least n namespace-0
\* links, get_links(page, n) returns the first n namespace-0 titles in API
\* order, over as many fetches as it takes; no returned title is that of a
\* link outside namespace 0.
C7_FirstNArticleLinks ==
    /\ ( /\ LinksDone
         /\ num_links # <<>>
         /\ num_links[1] >= 1
         /\ Len(Available(page)) >= num_links[1] )
          => outcome = Returned(SubSeq(Available(page), 1, num_links[1]))
    /\ (LinksDone /\ outcome.kind = "list")
          => \A i \in DOMAIN outcome.value :
                \A l \in AllLinks(page) : l.title = outcome.value[i] => l.ns = 0

C7_Witness ==
    /\ LinksDone
    /\ num_links = <<3>>
    /\ Len(requests) >= 2
    /\ outcome.kind = "list"
    /\ Len(outcome.value) = 3
    /\ \E l \in AllLinks(responses) : l.ns # 0

C9_SessionsReleased ==
    pc \in {"idle", "done"} => sessions = 0

C9_Witness ==
    /\ SearchDone
    /\ outcome.kind = "raise"
    /\ Len(requests) >= 2
    /\ sessions = 0

\* The requests and responses of get_links so far follow the cursor.
CursorFollowed ==
    fn = "get_links" =>
        /\ \A i \in DOMAIN requests :
              IF i = 1 THEN "plcontinue" \notin DOMAIN requests[i]
              ELSE /\ "plcontinue" \in DOMAIN requests[i]
                   /\ "continue" \in DOMAIN responses[i - 1]
                   /\ requests[i].plcontinue = responses[i - 1].continue
        /\ \A i \in DOMAIN responses :
              "continue" \notin DOMAIN responses[i] =>
                  /\ i = Len(responses)
                  /\ Len(requests) = i
                  /\ pc = "done"
                  /\ outcome = Returned(pl)

\* C10: the first request of get_links carries no cursor and each later one
\* the cursor of the response before it; the first response without a
\* cursor ends the call with the accumulator and no request follows it; and
\* the call ends, the API's pagination being finite.
C10_CursorPagination ==
    /\ []CursorFollowed
    /\ (pc = "gl_loop") ~> (pc = "done")

C10_Witness ==
    /\ LinksDone
    /\ Len(requests) >= 3
    /\ Len(responses) = Len(requests)
    /\ "continue" \notin DOMAIN responses[Len(responses)]
    /\ "links" \in DOMAIN responses[Len(responses)]
    /\ outcome.kind = "list"
====
